---- MODULE Spec2Model ----
(***************************************************************************)
(* The Netlify function netlify/functions/try-hairstyle.js: one HTTP       *)
(* handler that validates a request, calls the generative-image API once   *)
(* and maps the outcome to an HTTP response.                                *)
(*                                                                         *)
(* JavaScript values are tagged records, a JS exception is a completion    *)
(* record [ok |-> FALSE, error |-> ...], and strings are TLA+ strings, so  *)
(* that JSON.stringify, the template literals and startsWith are computed  *)
(* character by character.                                                 *)
(***************************************************************************)
EXTENDS Integers, Sequences, FiniteSets, TLC

(***************************************************************************)
(* Bounds of the model.                                                    *)
(***************************************************************************)
\* the longest parts array a candidate of the upstream response carries
MaxParts == 2

(***************************************************************************)
(* JavaScript values.                                                      *)
(***************************************************************************)
Undefined == [t |-> "undefined"]
Null == [t |-> "null"]
Str(s) == [t |-> "string", s |-> s]
Num(n) == [t |-> "number", n |-> n]
\* an array: its elements in order
Arr(a) == [t |-> "array", a |-> a]
\* an object: its own properties, <<key, value>> in insertion order
Obj(m) == [t |-> "object", m |-> m]

Ok(v) == [ok |-> TRUE, val |-> v]
Throw(name, message) == [ok |-> FALSE, error |-> [name |-> name, message |-> message]]

IsNullish(v) == v.t \in {"undefined", "null"}

\* ToBoolean, as `!x`, `a && b` and `if (x)` apply it
Truthy(v) ==
    CASE v.t = "undefined" -> FALSE
      [] v.t = "null" -> FALSE
      [] v.t = "string" -> v.s # ""
      [] v.t = "number" -> v.n # 0
      [] OTHER -> TRUE

\* v.k for a v that is neither null nor undefined (a missing property reads undefined)
Prop(v, k) ==
    CASE v.t = "object" ->
            IF SelectSeq(v.m, LAMBDA member : member[1] = k) = <<>>
            THEN Undefined
            ELSE SelectSeq(v.m, LAMBDA member : member[1] = k)[1][2]
      [] v.t = "string" /\ k = "length" -> Num(Len(v.s))
      [] v.t = "array" /\ k = "length" -> Num(Len(v.a))
      [] OTHER -> Undefined

\* s.startsWith(prefix)
StartsWith(s, prefix) ==
    /\ Len(s) >= Len(prefix)
    /\ SubSeq(s, 1, Len(prefix)) = prefix

\* s.substring(0, end)
Substring0(s, end) == SubSeq(s, 1, IF Len(s) < end THEN Len(s) ELSE end)

\* String(v), as a template literal interpolates it
ToJsString(v) ==
    CASE v.t = "undefined" -> "undefined"
      [] v.t = "null" -> "null"
      [] v.t = "string" -> v.s
      [] v.t = "number" -> ToString(v.n)
      [] OTHER -> "[object Object]"

(***************************************************************************)
(* JSON.stringify and JSON.parse.                                          *)
(***************************************************************************)
\* the characters a JSON string literal escapes with a backslash
NeedsEscape(s, i) == SubSeq(s, i, i) \in {"\"", "\\"}

\* the characters of a JSON string literal: a quote and a backslash are
\* preceded by a backslash, the text between them is copied
EscapeText[s \in STRING] ==
    LET special == { i \in 1..Len(s) : NeedsEscape(s, i) }
    IN  IF special = {} THEN s
        ELSE LET i == CHOOSE j \in special : \A k \in special : j <= k
             IN  SubSeq(s, 1, i - 1) \o "\\" \o SubSeq(s, i, i)
                     \o EscapeText[SubSeq(s, i + 1, Len(s))]

Escape(s) == EscapeText[s]

RECURSIVE JSONstringify(_)
RECURSIVE StringifyMembers(_, _)
RECURSIVE StringifyElements(_)
\* the members of an object; a property whose value is undefined is left out
StringifyMembers(m, first) ==
    IF m = <<>> THEN ""
    ELSE IF m[1][2].t = "undefined" THEN StringifyMembers(Tail(m), first)
    ELSE (IF first THEN "" ELSE ",")
         \o "\"" \o Escape(m[1][1]) \o "\":" \o JSONstringify(m[1][2])
         \o StringifyMembers(Tail(m), FALSE)

StringifyElements(a) ==
    IF a = <<>> THEN ""
    ELSE JSONstringify(IF a[1].t = "undefined" THEN Null ELSE a[1])
         \o (IF Len(a) > 1 THEN "," ELSE "")
         \o StringifyElements(Tail(a))

JSONstringify(v) ==
    CASE v.t = "null" -> "null"
      [] v.t = "string" -> "\"" \o Escape(v.s) \o "\""
      [] v.t = "number" -> ToString(v.n)
      [] v.t = "array" -> "[" \o StringifyElements(v.a) \o "]"
      [] v.t = "object" -> "{" \o StringifyMembers(v.m, TRUE) \o "}"

\* the values a request field takes in a JSON body (Undefined: the key is absent)
FieldValues ==
    { Undefined, Null, Str(""), Num(0), Num(7),
      Str("iVBORw0KGgoAAAANSUhEUgAAAAEAAAAB"),
      Str("a platinum blonde bob cut with curtain bangs and layers") }

\* the JSON documents a client sends: objects with the two fields, and
\* documents that are no object
JsonDocuments ==
    { Obj(<< <<"image_data", i>>, <<"prompt", p>> >>) : i \in FieldValues, p \in FieldValues }
        \cup { Null, Num(7), Str("bob cut"), Arr(<<>>) }

\* texts that are no JSON document
MalformedTexts == { "", "{image_data:", "undefined" }

SyntaxErrorMessage(text) ==
    CASE text = "" -> "Unexpected end of JSON input"
      [] text = "undefined" -> "\"undefined\" is not valid JSON"
      [] OTHER -> "Expected property name or '}' in JSON at position 1"

\* the text of each document
DocumentText == [d \in JsonDocuments |-> JSONstringify(d)]

\* JSON.parse(v): v is converted to a string first; the text of a document
\* parses to the document, any other text throws a SyntaxError
JSONparse(v) ==
    IF \E d \in JsonDocuments : DocumentText[d] = ToJsString(v)
    THEN Ok(CHOOSE d \in JsonDocuments : DocumentText[d] = ToJsString(v))
    ELSE Throw("SyntaxError", SyntaxErrorMessage(ToJsString(v)))

\* event.body as Netlify hands it over: no body, or the text the client sent
Bodies ==
    { Undefined, Null }
        \cup { Str(DocumentText[d]) : d \in JsonDocuments }
        \cup { Str(x) : x \in MalformedTexts }

(***************************************************************************)
(* The upstream generation API.                                            *)
(***************************************************************************)
MODEL_NAME == "gemini-2.5-flash-image-preview"

TextPart(s) == Obj(<< <<"text", Str(s)>> >>)
InlinePart(mimeType, data) ==
    Obj(<< <<"inlineData", Obj(<< <<"data", data>>, <<"mimeType", mimeType>> >>)>> >>)

PngData == Str("iVBORw0KGgoAAAANSUhEUg==")
JpegData == Str("/9j/4AAQSkZJRgABAQ==")

\* the parts a candidate's content is made of; both fields of inlineData are
\* optional in the API's response type
PartKinds ==
    { TextPart("Here is the new hairstyle."),
      InlinePart(Str("image/png"), PngData),
      InlinePart(Str("image/jpeg"), JpegData),
      InlinePart(Str("image/png"), Str("")),
      InlinePart(Str("image/png"), Undefined),
      InlinePart(Str("text/plain"), Str("aGVsbG8=")),
      InlinePart(Undefined, PngData) }

PartLists == UNION { [1..n -> PartKinds] : n \in 0..MaxParts }

Candidate(parts) == Obj(<< <<"content", Obj(<< <<"parts", Arr(parts)>> >>)>> >>)

\* a candidate: without content (a blocked generation), with content without
\* parts, or with a parts array
Candidates ==
    { Obj(<< <<"finishReason", Str("SAFETY")>> >>), Obj(<< <<"content", Obj(<<>>)>> >>) }
        \cup { Candidate(ps) : ps \in PartLists }

\* the candidates that follow the first one, when the API returns several
LaterCandidates ==
    { Candidate(<<TextPart("Here is the new hairstyle.")>>),
      Candidate(<<InlinePart(Str("image/jpeg"), JpegData)>>) }

\* the responses generateContent resolves to
ApiResponses ==
    { Obj(<< <<"promptFeedback", Obj(<< <<"blockReason", Str("SAFETY")>> >>)>> >>),
      Obj(<< <<"candidates", Arr(<<>>)>> >>) }
        \cup { Obj(<< <<"candidates", Arr(<<c>>)>> >>) : c \in Candidates }
        \cup { Obj(<< <<"candidates", Arr(<<c, d>>)>> >>) : c \in Candidates, d \in LaterCandidates }

\* the errors generateContent rejects with
ApiErrors ==
    { [name |-> "TypeError", message |-> "fetch failed"],
      [name |-> "ApiError",
       message |-> "{\"error\":{\"code\":429,\"status\":\"RESOURCE_EXHAUSTED\"}}"] }

(***************************************************************************)
(* The handler's pure parts.                                               *)
(***************************************************************************)
headers ==
    ("Content-Type" :> "application/json")
        @@ ("Access-Control-Allow-Origin" :> "*")
        @@ ("Access-Control-Allow-Methods" :> "POST, OPTIONS")
        @@ ("Access-Control-Allow-Headers" :> "Content-Type")

\* a handler whose error responses are built without the CORS headers
ResponseWithoutCors(statusCode, key, value) ==
    [statusCode |-> statusCode,
     headers |-> IF statusCode = 200 THEN headers ELSE ("Content-Type" :> "application/json"),
     body |-> JSONstringify(Obj(<< <<key, value>> >>))]

\* { statusCode, headers, body: JSON.stringify({ [key]: value }) }
Response(statusCode, key, value) ==
    [statusCode |-> statusCode,
     headers |-> headers,
     body |-> JSONstringify(Obj(<< <<key, value>> >>))]

\* a preflight check that compares with the lower-case method name
IsPreflightLowerCase(httpMethod) == httpMethod = "options"

\* event.httpMethod === 'OPTIONS'
IsPreflight(httpMethod) == httpMethod = "OPTIONS"

\* a method check that turns away GET only
IsPostNotGet(httpMethod) == httpMethod # "GET"

\* event.httpMethod === 'POST' (the handler tests its negation)
IsPost(httpMethod) == httpMethod = "POST"

\* a configuration check that tests for undefined only
KeyNotSetUndefinedOnly(key) == key = Undefined

\* !process.env.GEMINI_API_KEY
KeyNotSet(key) == ~Truthy(key)

\* const { image_data: imageData, prompt } = <v>
Destructure(v) ==
    IF IsNullish(v)
    THEN Throw("TypeError",
               "Cannot destructure property 'image_data' of 'JSON.parse(...)' as it is "
                   \o ToJsString(v) \o ".")
    ELSE Ok([imageData |-> Prop(v, "image_data"), prompt |-> Prop(v, "prompt")])

\* the text of LOG 2: `${imageData.length}` and `${prompt.substring(0, 50)}`
\* are evaluated in this order, and either may throw
Log2(imageData, prompt) ==
    IF IsNullish(imageData)
    THEN Throw("TypeError",
               "Cannot read properties of " \o ToJsString(imageData) \o " (reading 'length')")
    ELSE IF IsNullish(prompt)
    THEN Throw("TypeError",
               "Cannot read properties of " \o ToJsString(prompt) \o " (reading 'substring')")
    ELSE IF prompt.t # "string"
    THEN Throw("TypeError", "prompt.substring is not a function")
    ELSE Ok("LOG 2: Received Image Data (Length: "
                \o ToJsString(Prop(imageData, "length"))
                \o ") and Prompt: " \o Substring0(prompt.s, 50) \o "...")

\* a field check that rejects only when both fields are missing
MissingFieldsBoth(imageData, prompt) == ~Truthy(imageData) /\ ~Truthy(prompt)

\* !imageData || !prompt
MissingFields(imageData, prompt) == ~Truthy(imageData) \/ ~Truthy(prompt)

FullPrompt(prompt) ==
    "Change the hairstyle and color of the person in the input image to: \""
        \o ToJsString(prompt)
        \o "\". Preserve the person's face, features, lighting, and clothing exactly as they are. This is a high-quality, realistic photo manipulation."

ImagePart(imageData) == [inlineData |-> [data |-> imageData, mimeType |-> "image/png"]]

\* the argument of ai.models.generateContent
GenerateContentRequest(text, part) ==
    [model |-> MODEL_NAME,
     contents |-> << [parts |-> << [text |-> text], part >>] >>,
     generationConfig |-> [responseMimeType |-> "image/png",
                           responseModality |-> <<"TEXT", "IMAGE">>]]

\* apiResponse.candidates?.[0]
FirstCandidate(response) ==
    LET candidates == Prop(response, "candidates")
    IN  IF IsNullish(candidates) THEN Undefined
        ELSE IF candidates.t = "array" /\ Len(candidates.a) >= 1 THEN candidates.a[1]
        ELSE Undefined

\* p => p.inlineData && p.inlineData.mimeType.startsWith('image/')
IsImagePart(p) ==
    LET inlineData == Prop(p, "inlineData")
    IN  IF ~Truthy(inlineData) THEN Ok(FALSE)
        ELSE LET mimeType == Prop(inlineData, "mimeType")
             IN  IF IsNullish(mimeType)
                 THEN Throw("TypeError",
                            "Cannot read properties of " \o ToJsString(mimeType)
                                \o " (reading 'startsWith')")
                 ELSE IF mimeType.t # "string"
                 THEN Throw("TypeError", "p.inlineData.mimeType.startsWith is not a function")
                 ELSE Ok(StartsWith(mimeType.s, "image/"))

RECURSIVE FindFrom(_, _)
\* Array.prototype.find from index i on: the first element the predicate
\* accepts, undefined when there is none; an exception of the predicate ends it
FindFrom(a, i) ==
    IF i > Len(a) THEN Ok(Undefined)
    ELSE IF ~IsImagePart(a[i]).ok THEN IsImagePart(a[i])
    ELSE IF IsImagePart(a[i]).val THEN Ok(a[i])
    ELSE FindFrom(a, i + 1)

\* candidate?.content?.parts?.find(...)
GeneratedPart(cand) ==
    IF IsNullish(cand) THEN Ok(Undefined)
    ELSE LET content == Prop(cand, "content")
         IN  IF IsNullish(content) THEN Ok(Undefined)
             ELSE LET parts == Prop(content, "parts")
                  IN  IF IsNullish(parts) THEN Ok(Undefined)
                      ELSE IF parts.t # "array"
                      THEN Throw("TypeError", "candidate?.content?.parts?.find is not a function")
                      ELSE FindFrom(parts.a, 1)

\* !generatedPart || !generatedPart.inlineData || !generatedPart.inlineData.data
NoImage(generatedPart) ==
    \/ ~Truthy(generatedPart)
    \/ ~Truthy(Prop(generatedPart, "inlineData"))
    \/ ~Truthy(Prop(Prop(generatedPart, "inlineData"), "data"))

PreflightResponse == Response(200, "message", Str("CORS Preflight successful."))
MethodNotAllowedResponse == Response(405, "error", Str("Method Not Allowed. Use POST."))
ConfigErrorResponse ==
    Response(500, "error", Str("Server configuration error: GEMINI_API_KEY not set."))
BadRequestResponse == Response(400, "error", Str("Missing required fields: image_data or prompt."))
GenerationFailedResponse ==
    Response(500, "error",
             Str("AI failed to return an image. Try a different prompt, or ensure the image is clear."))
SuccessResponse(base64Image) == Response(200, "image_data", base64Image)
\* a catch block that does not report the exception's message
InternalErrorResponseNoMessage(error) ==
    Response(500, "error", Str("Internal Server Error"))

\* the catch block's response
InternalErrorResponse(error) ==
    Response(500, "error", Str("Internal Server Error: " \o error.message))

(***************************************************************************)
(* The state of one invocation.                                            *)
(***************************************************************************)
VARIABLES
    env,              \* process.env.GEMINI_API_KEY
    event,            \* the event of the invocation
    pc,               \* the statement the handler is at
    parsedBody,       \* the value of JSON.parse(event.body)
    imageData,        \* the handler's locals
    prompt,
    fullPrompt,
    imagePart,
    apiResponse,
    candidate,
    generatedPart,
    parseCalls,       \* how often JSON.parse was called on the body
    upstreamRequests, \* the requests handed to ai.models.generateContent, in order
    thrown,           \* the exception thrown inside the try block, if any
    returned,         \* the responses the handler returned, in order
    log               \* the lines written with console.log and console.error

vars == <<env, event, pc, parsedBody, imageData, prompt, fullPrompt, imagePart,
          apiResponse, candidate, generatedPart, parseCalls, upstreamRequests, thrown,
          returned, log>>

locals == <<parsedBody, imageData, prompt, fullPrompt, imagePart, apiResponse, candidate,
            generatedPart>>

\* the environment variable: not set, set to the empty string, or set to a key
EnvValues == { Undefined, Str(""), Str("AIzaSyD-EXAMPLE-KEY") }

HttpMethods == { "OPTIONS", "POST", "GET", "PUT" }

Init ==
    /\ env \in EnvValues
    /\ event = Undefined
    /\ pc = "Idle"
    /\ parsedBody = Undefined
    /\ imageData = Undefined
    /\ prompt = Undefined
    /\ fullPrompt = Undefined
    /\ imagePart = Undefined
    /\ apiResponse = Undefined
    /\ candidate = Undefined
    /\ generatedPart = Undefined
    /\ parseCalls = 0
    /\ upstreamRequests = <<>>
    /\ thrown = Undefined
    /\ returned = <<>>
    /\ log = <<>>

\* `return response`: the invocation ends with it
Return(response) ==
    /\ returned' = Append(returned, response)
    /\ pc' = "Respond"

\* a statement of the try block throws: control passes to the catch block
Raise(error) ==
    /\ thrown' = error
    /\ pc' = "Catch"

\* the hosting runtime calls the handler with an event
Invoke(httpMethod, body) ==
    /\ pc = "Idle"
    /\ event' = [httpMethod |-> httpMethod, body |-> body]
    /\ pc' = "PreflightCheck"
    /\ UNCHANGED <<env, locals, parseCalls, upstreamRequests, thrown, returned, log>>

PreflightCheck ==
    /\ pc = "PreflightCheck"
    /\ IF IsPreflight(event.httpMethod)
       THEN Return(PreflightResponse)
       ELSE pc' = "MethodCheck" /\ UNCHANGED returned
    /\ UNCHANGED <<env, event, locals, parseCalls, upstreamRequests, thrown, log>>

MethodCheck ==
    /\ pc = "MethodCheck"
    /\ IF ~IsPost(event.httpMethod)
       THEN Return(MethodNotAllowedResponse)
       ELSE pc' = "ConfigCheck" /\ UNCHANGED returned
    /\ UNCHANGED <<env, event, locals, parseCalls, upstreamRequests, thrown, log>>

ConfigCheck ==
    /\ pc = "ConfigCheck"
    /\ IF KeyNotSet(env)
       THEN /\ log' = Append(log, "GEMINI_API_KEY environment variable is not set.")
            /\ Return(ConfigErrorResponse)
       ELSE /\ log' = Append(log, "LOG 1: API Key Check Passed. Starting main process.")
            /\ pc' = "Parse"
            /\ UNCHANGED returned
    /\ UNCHANGED <<env, event, locals, parseCalls, upstreamRequests, thrown>>

\* the try block is entered: JSON.parse(event.body)
Parse ==
    /\ pc = "Parse"
    /\ parseCalls' = parseCalls + 1
    /\ IF JSONparse(event.body).ok
       THEN /\ parsedBody' = JSONparse(event.body).val
            /\ pc' = "Validate"
            /\ UNCHANGED thrown
       ELSE /\ Raise(JSONparse(event.body).error)
            /\ UNCHANGED parsedBody
    /\ UNCHANGED <<env, event, imageData, prompt, fullPrompt, imagePart, apiResponse,
                   candidate, generatedPart, upstreamRequests, returned, log>>

\* the two fields the destructuring binds
Fields == Destructure(parsedBody)
\* LOG 2, for the two fields
Line == Log2(Fields.val.imageData, Fields.val.prompt)

\* the destructuring of the parsed body, LOG 2 and the check of the two fields
Validate ==
    /\ pc = "Validate"
    /\ IF ~Fields.ok
       THEN /\ Raise(Fields.error)
            /\ UNCHANGED <<imageData, prompt, returned, log>>
       ELSE /\ imageData' = Fields.val.imageData
            /\ prompt' = Fields.val.prompt
            /\ IF ~Line.ok
               THEN /\ Raise(Line.error)
                    /\ UNCHANGED <<returned, log>>
               ELSE /\ log' = Append(log, Line.val)
                    /\ UNCHANGED thrown
                    /\ IF MissingFields(imageData', prompt')
                       THEN Return(BadRequestResponse)
                       ELSE pc' = "BuildPayload" /\ UNCHANGED returned
    /\ UNCHANGED <<env, event, parsedBody, fullPrompt, imagePart, apiResponse, candidate,
                   generatedPart, parseCalls, upstreamRequests>>

BuildPayload ==
    /\ pc = "BuildPayload"
    /\ fullPrompt' = Str(FullPrompt(prompt))
    /\ imagePart' = ImagePart(imageData)
    /\ pc' = "CallUpstream"
    /\ UNCHANGED <<env, event, parsedBody, imageData, prompt, apiResponse, candidate,
                   generatedPart, parseCalls, upstreamRequests, thrown, returned, log>>

\* ai.models.generateContent(...) is called and the handler awaits its promise
CallUpstream ==
    /\ pc = "CallUpstream"
    /\ upstreamRequests' =
           Append(upstreamRequests, GenerateContentRequest(fullPrompt.s, imagePart))
    /\ pc' = "AwaitUpstream"
    /\ UNCHANGED <<env, event, locals, parseCalls, thrown, returned, log>>

\* the promise resolves
UpstreamReturns(response) ==
    /\ pc = "AwaitUpstream"
    /\ apiResponse' = response
    /\ pc' = "ExtractResult"
    /\ UNCHANGED <<env, event, parsedBody, imageData, prompt, fullPrompt, imagePart,
                   candidate, generatedPart, parseCalls, upstreamRequests, thrown, returned,
                   log>>

\* the promise rejects: the await throws inside the try block
UpstreamThrows(error) ==
    /\ pc = "AwaitUpstream"
    /\ Raise(error)
    /\ UNCHANGED <<env, event, locals, parseCalls, upstreamRequests, returned, log>>

\* const candidate = apiResponse.candidates?.[0]
ExtractResult ==
    /\ pc = "ExtractResult"
    /\ candidate' = FirstCandidate(apiResponse)
    /\ pc' = "FindImage"
    /\ UNCHANGED <<env, event, parsedBody, imageData, prompt, fullPrompt, imagePart,
                   apiResponse, generatedPart, parseCalls, upstreamRequests, thrown,
                   returned, log>>

\* const generatedPart = candidate?.content?.parts?.find(...)
FindImage ==
    /\ pc = "FindImage"
    /\ IF GeneratedPart(candidate).ok
       THEN /\ generatedPart' = GeneratedPart(candidate).val
            /\ pc' = "CheckResult"
            /\ UNCHANGED thrown
       ELSE /\ Raise(GeneratedPart(candidate).error)
            /\ UNCHANGED generatedPart
    /\ UNCHANGED <<env, event, parsedBody, imageData, prompt, fullPrompt, imagePart,
                   apiResponse, candidate, parseCalls, upstreamRequests, returned, log>>

\* a handler that calls the upstream API a second time when the first response
\* has no image
CheckResultRetry ==
    /\ pc = "CheckResult"
    /\ IF NoImage(generatedPart) /\ Len(upstreamRequests) < 2
       THEN /\ pc' = "CallUpstream"
            /\ UNCHANGED <<returned, log>>
       ELSE IF NoImage(generatedPart)
       THEN /\ log' = Append(log, "LOG 3: AI failed to return an image or response was malformed.")
            /\ Return(GenerationFailedResponse)
       ELSE /\ log' = Append(log, "LOG 4: Image generated successfully. Returning data.")
            /\ Return(SuccessResponse(Prop(Prop(generatedPart, "inlineData"), "data")))
    /\ UNCHANGED <<env, event, locals, parseCalls, upstreamRequests, thrown>>

\* the generation-failure response, or the image
CheckResult ==
    /\ pc = "CheckResult"
    /\ IF NoImage(generatedPart)
       THEN /\ log' = Append(log, "LOG 3: AI failed to return an image or response was malformed.")
            /\ Return(GenerationFailedResponse)
       ELSE /\ log' = Append(log, "LOG 4: Image generated successfully. Returning data.")
            /\ Return(SuccessResponse(Prop(Prop(generatedPart, "inlineData"), "data")))
    /\ UNCHANGED <<env, event, locals, parseCalls, upstreamRequests, thrown>>

\* the catch block: LOG 5, then the internal-error response
Catch ==
    /\ pc = "Catch"
    /\ log' = Append(log, "LOG 5: Internal Server Error: " \o thrown.name \o ": " \o thrown.message)
    /\ Return(InternalErrorResponse(thrown))
    /\ UNCHANGED <<env, event, locals, parseCalls, upstreamRequests, thrown>>

Next ==
    \/ \E httpMethod \in HttpMethods, body \in Bodies : Invoke(httpMethod, body)
    \/ PreflightCheck
    \/ MethodCheck
    \/ ConfigCheck
    \/ Parse
    \/ Validate
    \/ BuildPayload
    \/ CallUpstream
    \/ \E response \in ApiResponses : UpstreamReturns(response)
    \/ \E error \in ApiErrors : UpstreamThrows(error)
    \/ ExtractResult
    \/ FindImage
    \/ CheckResult
    \/ Catch

Spec == Init /\ [][Next]_vars

\* the statements of the handler
HandlerStep ==
    \/ PreflightCheck
    \/ MethodCheck
    \/ ConfigCheck
    \/ Parse
    \/ Validate
    \/ BuildPayload
    \/ CallUpstream
    \/ ExtractResult
    \/ FindImage
    \/ CheckResult
    \/ Catch

\* the promise of generateContent settles
UpstreamSettles ==
    \/ \E response \in ApiResponses : UpstreamReturns(response)
    \/ \E error \in ApiErrors : UpstreamThrows(error)

\* the runtime runs the handler's statements to the next await or return, and
\* the upstream call returns or throws
FairSpec == Spec /\ WF_vars(HandlerStep) /\ WF_vars(UpstreamSettles)

(***************************************************************************)
(* What the properties below speak of.                                     *)
(***************************************************************************)
Invoked == pc # "Idle"
Done == pc = "Respond"
TheResponse == returned[1]

CredentialPresent == Truthy(env)

\* the JSON document of the request body, when the body is one
BodyIsObject ==
    /\ JSONparse(event.body).ok
    /\ JSONparse(event.body).val.t = "object"
BodyField(k) == Prop(JSONparse(event.body).val, k)

\* a field that is missing from the body, or the empty string
MissingOrEmpty(v) == v = Undefined \/ v = Str("")
\* a field that is a non-empty string
NonEmptyString(v) == v.t = "string" /\ v.s # ""

ErrorBody(text) == "{\"error\":\"" \o text \o "\"}"

RECURSIVE PartsOf(_)
\* every part of a response, candidate after candidate, in order
PartsOf(candidates) ==
    IF candidates = <<>> THEN <<>>
    ELSE LET content == Prop(candidates[1], "content")
             parts == IF content.t = "object" THEN Prop(content, "parts") ELSE Undefined
         IN  (IF parts.t = "array" THEN parts.a ELSE <<>>) \o PartsOf(Tail(candidates))

ResponseParts(response) ==
    LET candidates == Prop(response, "candidates")
    IN  IF candidates.t = "array" THEN PartsOf(candidates.a) ELSE <<>>

\* an inline-data part whose mimeType starts with image/
ImageTyped(p) ==
    LET inlineData == Prop(p, "inlineData")
    IN  /\ inlineData.t = "object"
        /\ Prop(inlineData, "mimeType").t = "string"
        /\ StartsWith(Prop(inlineData, "mimeType").s, "image/")

PartData(p) == Prop(Prop(p, "inlineData"), "data")

\* the image-typed parts of a response that carry non-empty data
ImagesWithData(response) ==
    SelectSeq(ResponseParts(response), LAMBDA p : ImageTyped(p) /\ NonEmptyString(PartData(p)))

\* a POST request with the credential present and both fields non-empty, to
\* which the upstream call returned a response
ValidRequestAnswered ==
    /\ Done
    /\ event.httpMethod = "POST"
    /\ CredentialPresent
    /\ BodyIsObject
    /\ NonEmptyString(BodyField("image_data"))
    /\ NonEmptyString(BodyField("prompt"))
    /\ apiResponse # Undefined

(***************************************************************************)
(* C1: a POST request made with the credential present whose JSON body     *)
(* lacks image_data or prompt, or has either as the empty string, is       *)
(* answered with status 400 and the error 'Missing required fields:        *)
(* image_data or prompt.'                                                  *)
(***************************************************************************)
C1_MissingFieldIs400 ==
    ( /\ Done
      /\ event.httpMethod = "POST"
      /\ CredentialPresent
      /\ BodyIsObject
      /\ MissingOrEmpty(BodyField("image_data")) \/ MissingOrEmpty(BodyField("prompt")) )
        => /\ TheResponse.statusCode = 400
           /\ TheResponse.body = ErrorBody("Missing required fields: image_data or prompt.")

(***************************************************************************)
(* C2: when the upstream response to a valid request contains an           *)
(* image-typed inline-data part with non-empty data, the response is 200   *)
(* and its image_data is the data of the first such part, wherever the     *)
(* part is in the response.                                                *)
(***************************************************************************)
C2_FirstImageReturned ==
    (ValidRequestAnswered /\ ImagesWithData(apiResponse) # <<>>)
        => /\ TheResponse.statusCode = 200
           /\ TheResponse.body
                  = "{\"image_data\":\"" \o PartData(ImagesWithData(apiResponse)[1]).s \o "\"}"

(***************************************************************************)
(* C3: when the upstream response to a valid request contains no           *)
(* image-typed part, the response is 500 with the generation-failure       *)
(* message, not 'Internal Server Error' and not 200.                       *)
(***************************************************************************)
C3_NoImageIsGenerationFailure ==
    ( /\ ValidRequestAnswered
      /\ \A i \in 1..Len(ResponseParts(apiResponse)) : ~ImageTyped(ResponseParts(apiResponse)[i]) )
        => /\ TheResponse.statusCode = 500
           /\ TheResponse.body
                  = ErrorBody("AI failed to return an image. Try a different prompt, or ensure the image is clear.")

(***************************************************************************)
(* C4: the upstream API is called only for a POST request made with the    *)
(* credential present whose body parsed to a non-empty image_data and a    *)
(* non-empty prompt; a rejected request is answered without an upstream    *)
(* call.                                                                   *)
(***************************************************************************)
C4_UpstreamOnlyForValidRequest ==
    upstreamRequests # <<>>
        => /\ event.httpMethod = "POST"
           /\ CredentialPresent
           /\ parseCalls = 1
           /\ BodyIsObject
           /\ ~MissingOrEmpty(BodyField("image_data")) /\ ~IsNullish(BodyField("image_data"))
           /\ ~MissingOrEmpty(BodyField("prompt")) /\ ~IsNullish(BodyField("prompt"))
           /\ upstreamRequests[1].contents[1].parts[2].inlineData.data = BodyField("image_data")

C4_Witness == pc = "AwaitUpstream" /\ Len(upstreamRequests) = 1

(***************************************************************************)
(* C5: a request with method OPTIONS is answered with status 200 whatever  *)
(* the credential and the body are; the body is not parsed and the         *)
(* upstream API is not called.                                             *)
(***************************************************************************)
C5_PreflightShortCircuits ==
    (Invoked /\ event.httpMethod = "OPTIONS")
        => /\ pc \in {"PreflightCheck", "Respond"}
           /\ parseCalls = 0
           /\ upstreamRequests = <<>>
           /\ Done => TheResponse.statusCode = 200

C5_Witness ==
    /\ Done
    /\ event.httpMethod = "OPTIONS"
    /\ ~CredentialPresent
    /\ event.body = Str("{image_data:")
    /\ TheResponse.statusCode = 200

(***************************************************************************)
(* C6: a request whose method is neither POST nor OPTIONS is answered with *)
(* status 405 and 'Method Not Allowed. Use POST.', also when the           *)
(* credential is absent and when the body is missing or malformed.         *)
(***************************************************************************)
C6_OtherMethodIs405 ==
    (Invoked /\ event.httpMethod \notin {"POST", "OPTIONS"})
        => /\ pc \in {"PreflightCheck", "MethodCheck", "Respond"}
           /\ Done => /\ TheResponse.statusCode = 405
                      /\ TheResponse.body = ErrorBody("Method Not Allowed. Use POST.")

C6_Witness ==
    /\ Done
    /\ event.httpMethod = "PUT"
    /\ ~CredentialPresent
    /\ event.body = Undefined
    /\ TheResponse.statusCode = 405

(***************************************************************************)
(* C7: a POST request made while the credential is absent is answered with *)
(* status 500 and 'Server configuration error: GEMINI_API_KEY not set.';   *)
(* the body is not parsed, so a valid, an invalid and a malformed body     *)
(* give the same response, and the upstream API is not called.             *)
(***************************************************************************)
C7_MissingKeyIsConfigError ==
    (Invoked /\ event.httpMethod = "POST" /\ ~CredentialPresent)
        => /\ parseCalls = 0
           /\ upstreamRequests = <<>>
           /\ Done => /\ TheResponse.statusCode = 500
                      /\ TheResponse.body
                             = ErrorBody("Server configuration error: GEMINI_API_KEY not set.")

C7_Witness ==
    /\ Done
    /\ event.httpMethod = "POST"
    /\ env = Undefined
    /\ BodyIsObject
    /\ NonEmptyString(BodyField("image_data"))
    /\ NonEmptyString(BodyField("prompt"))
    /\ TheResponse.statusCode = 500

(***************************************************************************)
(* C8: an exception raised while the body is parsed or by the upstream     *)
(* call is caught: the response is 500 with the error 'Internal Server     *)
(* Error: ' followed by the exception's message, and the handler returns.  *)
(* A malformed body is such an exception.                                  *)
(***************************************************************************)
C8_ExceptionIsInternalError ==
    /\ thrown # Undefined
           => /\ pc \in {"Catch", "Respond"}
              /\ Done => /\ Len(returned) = 1
                         /\ TheResponse.statusCode = 500
                         /\ TheResponse.body
                                = JSONstringify(Obj(<< <<"error",
                                      Str("Internal Server Error: " \o thrown.message)>> >>))
    /\ (Done /\ event.httpMethod = "POST" /\ CredentialPresent /\ ~JSONparse(event.body).ok)
           => thrown = JSONparse(event.body).error

C8_Witness ==
    /\ Done
    /\ pc = "Respond"
    /\ upstreamRequests # <<>>
    /\ apiResponse = Undefined
    /\ thrown \in ApiErrors
    /\ TheResponse.statusCode = 500

(***************************************************************************)
(* C9: every response the handler returns carries the same four headers:   *)
(* Content-Type: application/json, Access-Control-Allow-Origin: *,         *)
(* Access-Control-Allow-Methods: POST, OPTIONS and                         *)
(* Access-Control-Allow-Headers: Content-Type.                             *)
(***************************************************************************)
C9_FourHeadersAlways ==
    \A i \in 1..Len(returned) :
        /\ DOMAIN returned[i].headers
               = { "Content-Type", "Access-Control-Allow-Origin",
                   "Access-Control-Allow-Methods", "Access-Control-Allow-Headers" }
        /\ returned[i].headers["Content-Type"] = "application/json"
        /\ returned[i].headers["Access-Control-Allow-Origin"] = "*"
        /\ returned[i].headers["Access-Control-Allow-Methods"] = "POST, OPTIONS"
        /\ returned[i].headers["Access-Control-Allow-Headers"] = "Content-Type"

C9_Witness ==
    /\ Done
    /\ thrown # Undefined
    /\ TheResponse.statusCode = 500
    /\ TheResponse.headers["Access-Control-Allow-Origin"] = "*"

(***************************************************************************)
(* C10: the stages are passed in the order Preflight-check, Method-check,  *)
(* Config-check, Parse/Validate, Build-payload, Call-upstream,             *)
(* Extract-result, none of them twice; the upstream API is called at most  *)
(* once; and, the upstream call returning or throwing, an invocation ends  *)
(* in exactly one response.                                                *)
(***************************************************************************)
Stages ==
    << "Idle", "PreflightCheck", "MethodCheck", "ConfigCheck", "Parse", "Validate",
       "BuildPayload", "CallUpstream", "AwaitUpstream", "ExtractResult", "FindImage",
       "CheckResult",
       "Catch", "Respond" >>

StageIndex(stage) == CHOOSE i \in 1..Len(Stages) : Stages[i] = stage

\* a step leads to the next stage, or to the response, at once or through
\* the catch block
Forward ==
    /\ pc # "Respond"
    /\ pc' \in {Stages[StageIndex(pc) + 1], "Catch", "Respond"}
    /\ StageIndex(pc') > StageIndex(pc)
    /\ Len(returned') = IF pc' = "Respond" THEN 1 ELSE 0

C10_LinearControlFlow ==
    /\ [][Forward]_vars
    /\ [](Len(upstreamRequests) <= 1)
    /\ [](Len(returned) <= 1)
    /\ Invoked ~> (Done /\ Len(returned) = 1)

C10_Witness ==
    /\ Done
    /\ Len(upstreamRequests) = 1
    /\ apiResponse # Undefined
    /\ TheResponse.statusCode = 500
    /\ thrown = Undefined

====
